---- MODULE Spec2Model ----
(***************************************************************************)
(* Carson_integral.cxx: three evaluations of Carson's earth-return         *)
(* correction integral (quadrature CI, Carson's series J, EMTP series Je)  *)
(* over tables built once by Factorials() and Coeffs().                    *)
(*                                                                         *)
(* Doubles are abstracted to their IEEE-754 class.  A computed double is   *)
(* one of "nan", "pinf", "ninf", "zero" (+0 or -0) and "fin" (finite and   *)
(* nonzero, sign not tracked).  The inputs p and q, and the radius derived *)
(* from them, also carry a binary exponent, so that the overflow and the   *)
(* underflow of p*p + q*q, of pow() and of exp() are computed and not      *)
(* guessed.  Where the class of a result depends on a sign that is not     *)
(* tracked (infinity times a finite factor) every outcome is kept: the     *)
(* arithmetic operators return sets of classes.  Finite products and sums  *)
(* are taken to stay finite and nonzero.                                   *)
(***************************************************************************)
EXTENDS Integers, Sequences, FiniteSets

\* ------------------------------------------------------------ constants
Nf == 150
Nsi == 101
Ne == 50
Ns == 8
N == 10000
mu_max == 10
LocalLen == 32

\* Exponents e of the finite inputs +-2^e that are explored.
ExpMid == 2
ExpLarge == 37
ExpHuge == 600
ExpTiny == 40
ExpUnder == 600

\* ------------------------------------------------------------ IEEE classes
FC == {"nan", "pinf", "ninf", "zero", "fin"}

IsInf(a) == a \in {"pinf", "ninf"}

NegC(a) == IF a = "pinf" THEN "ninf" ELSE IF a = "ninf" THEN "pinf" ELSE a

\* a*b
MulC(a, b) ==
  IF a = "nan" \/ b = "nan" THEN {"nan"}
  ELSE IF (a = "zero" /\ IsInf(b)) \/ (IsInf(a) /\ b = "zero") THEN {"nan"}
  ELSE IF a = "zero" \/ b = "zero" THEN {"zero"}
  ELSE IF IsInf(a) /\ IsInf(b) THEN {IF a = b THEN "pinf" ELSE "ninf"}
  ELSE IF IsInf(a) \/ IsInf(b) THEN {"pinf", "ninf"}
  ELSE {"fin"}

\* a+b
AddC(a, b) ==
  IF a = "nan" \/ b = "nan" THEN "nan"
  ELSE IF IsInf(a) /\ IsInf(b) THEN (IF a = b THEN a ELSE "nan")
  ELSE IF IsInf(a) THEN a
  ELSE IF IsInf(b) THEN b
  ELSE IF a = "zero" THEN b
  ELSE a

\* 1.0/a for a >= 0 (+0 for zero: the tables hold no negative entry)
InvC(a) ==
  IF a = "nan" THEN "nan"
  ELSE IF a = "zero" THEN "pinf"
  ELSE IF IsInf(a) THEN "zero"
  ELSE "fin"

\* c*a for a finite constant c > 0
PosC(a) == a

\* nsign*a for nsign in {1, -1}
SignC(nsign, a) == IF nsign = 1 THEN a ELSE NegC(a)

isnan(a) == a = "nan"

MulS(A, B) == UNION {MulC(a, b) : a \in A, b \in B}
AddS(A, B) == {AddC(a, b) : a \in A, b \in B}
NegS(A) == {NegC(a) : a \in A}
InvS(A) == {InvC(a) : a \in A}
SignS(nsign, A) == {SignC(nsign, a) : a \in A}

\* ------------------------------------------------------------ inputs
\* A double given on the command line: NaN, +-inf, 0, or +-2^e.
Dbl(k, s, e) == [k |-> k, s |-> s, e |-> e]
NaNv == Dbl("nan", 1, 0)
PInfv == Dbl("inf", 1, 0)
NInfv == Dbl("inf", -1, 0)
Zerov == Dbl("zero", 1, 0)
Pow2(s, e) == Dbl("fin", s, e)

\* strtod(argv[1]), strtod(argv[2]); the first is the shape of the defaults
\* p = 5.0, q = 1.0
Inputs ==
  { <<Pow2(1, ExpMid), Pow2(1, 0)>>,
    <<Pow2(1, ExpMid), Zerov>>,
    <<Pow2(-1, ExpMid), Pow2(1, 0)>>,
    <<Zerov, Pow2(1, 0)>>,
    <<Zerov, Zerov>>,
    <<Pow2(1, ExpLarge), Zerov>>,
    <<Pow2(1, ExpLarge), Pow2(1, 0)>>,
    <<Pow2(1, ExpHuge), Zerov>>,
    <<Pow2(1, 0 - ExpTiny), Zerov>>,
    <<Pow2(1, 0 - ExpTiny), Pow2(1, 0 - ExpTiny)>>,
    <<Pow2(1, 0 - ExpUnder), Zerov>>,
    <<NaNv, Pow2(1, 0)>>,
    <<Pow2(1, ExpMid), NaNv>>,
    <<PInfv, Zerov>>,
    <<NInfv, Pow2(1, 0)>>,
    <<Pow2(1, ExpMid), PInfv>> }

\* A magnitude 2^(h/2): the class and the exponent h in half units (so that
\* the square root of 2^(2e+1) is representable).
Mag(k, h) == [k |-> k, h |-> h]

\* the class of a magnitude whose exponent is h half units: doubles overflow
\* at 2^1024 and underflow to 0 below 2^-1074
MagOf(h) ==
  IF h >= 2048 THEN Mag("inf", 0)
  ELSE IF h < 0 - 2148 THEN Mag("zero", 0)
  ELSE Mag("fin", h)

\* x*x
Sq(x) ==
  IF x.k = "fin" THEN MagOf(4 * x.e) ELSE Mag(x.k, 0)

\* a + b for a, b >= 0; of two finite terms the larger decides the exponent
AddMag(a, b) ==
  IF a.k = "nan" \/ b.k = "nan" THEN Mag("nan", 0)
  ELSE IF a.k = "inf" \/ b.k = "inf" THEN Mag("inf", 0)
  ELSE IF a.k = "zero" THEN b
  ELSE IF b.k = "zero" THEN a
  ELSE IF a.h = b.h THEN MagOf(a.h + 2)
  ELSE IF a.h > b.h THEN a ELSE b

\* sqrt(a), a >= 0
SqrtMag(a) ==
  IF a.k = "fin" THEN Mag("fin", a.h \div 2) ELSE a

\* sqrt(p*p + q*q)
Radius(pp, qq) == SqrtMag(AddMag(Sq(pp), Sq(qq)))

\* 0.5*r
Half(r) == IF r.k = "fin" THEN Mag("fin", r.h - 2) ELSE r

\* pow(x, n), x >= 0, n >= 0: pow(x, 0) is 1 for every x, NaN included
pow(x, n) ==
  IF n = 0 THEN "fin"
  ELSE IF x.k = "nan" THEN "nan"
  ELSE IF x.k = "inf" THEN "pinf"
  ELSE IF x.k = "zero" THEN "zero"
  ELSE IF n * x.h >= 2048 THEN "pinf"
  ELSE IF n * x.h < 0 - 2148 THEN "zero"
  ELSE "fin"

\* log(x), x >= 0
log(x) ==
  IF x.k = "nan" THEN "nan"
  ELSE IF x.k = "inf" THEN "pinf"
  ELSE IF x.k = "zero" THEN "ninf"
  ELSE IF x.h = 0 THEN "zero"
  ELSE "fin"

\* atan2(q, p): 0 when q is 0 and p is not negative, when p is +inf and q is
\* finite, and when q/p underflows; an angle in (-pi, pi] otherwise
atan2(qq, pp) ==
  IF qq.k = "nan" \/ pp.k = "nan" THEN "nan"
  ELSE IF qq.k = "zero" THEN (IF pp.s = 1 THEN "zero" ELSE "fin")
  ELSE IF qq.k = "inf" THEN "fin"
  ELSE IF pp.k = "inf" THEN (IF pp.s = 1 THEN "zero" ELSE "fin")
  ELSE IF pp.k = "zero" THEN "fin"
  ELSE IF pp.s = 1 /\ qq.e - pp.e < 0 - 1074 THEN "zero"
  ELSE "fin"

\* cos(n*th): no double has cosine exactly 0
cosn(n, th) == IF th = "nan" THEN "nan" ELSE "fin"

\* sin(n*th): 0 exactly when n*th is 0
sinn(n, th) ==
  IF th = "nan" THEN "nan"
  ELSE IF n = 0 \/ th = "zero" THEN "zero"
  ELSE "fin"

\* ------------------------------------------------------------ global tables
\* An entry of F, SI, PX: w, whether a builder assigned it, and its class.
\* Globals are zero-initialised before main runs.
ZeroEntry == [w |-> FALSE, v |-> "zero"]
Wr(v) == [w |-> TRUE, v |-> v]

\* An entry of b or d: sgn in {1, -1, 0} (0: the value 0.0) and ord, the
\* index n whose magnitude |b[n]| it holds (-1: any other nonzero magnitude);
\* an entry of d carries the factor pi/4 on top.
ZeroCoeff == [w |-> FALSE, sgn |-> 0, ord |-> 0]
\* An entry of c: base "seed" when it derives from c[2] = 1.3659315, "zero"
\* when it derives from a zero-initialised entry; ord as for b.
ZeroC == [w |-> FALSE, base |-> "zero", ord |-> 0]

\* double sum_inv(int m): 1 - 1/(2m) + sum of 1/mx, mx = 2..m
sum_inv(m) == PosC("fin")

\* double prod_xsq(int m): m times the product of (2mx+1)^2, mx = 1..m/2-1
prod_xsq(m) == PosC("fin")

\* F[n] = n*F[n - 1] for n = lo..hi in order (149! is below DBL_MAX)
RECURSIVE FLoop(_, _, _)
FLoop(tab, lo, hi) ==
  IF lo = hi THEN [tab EXCEPT ![lo] = Wr(PosC(tab[lo - 1].v))]
  ELSE LET mid == (lo + hi) \div 2
       IN CHOOSE r \in {FLoop(t, mid + 1, hi) : t \in {FLoop(tab, lo, mid)}} : TRUE

\* for(n = 2; n < Nsi; ++n) SI[n] = sum_inv(n)
SIIndices == 2..(Nsi - 1)

\* for(n = 1; n < Nsi + 1; n += 2) PX[n] = prod_xsq(n)
PXIndices_even == {n \in 1..Nsi : n % 2 = 0}
PXIndices == {n \in 1..Nsi : n % 2 = 1}

\* void Factorials(): the three tables it leaves
\* F[0] = 1.0; for(n = 1; n < Nf; ++n)
FactorialsF(F0) == FLoop([F0 EXCEPT ![0] = Wr("fin")], 1, Nf - 1)
FactorialsSI(SI0) == [n \in DOMAIN SI0 |-> IF n \in SIIndices THEN Wr(sum_inv(n)) ELSE SI0[n]]
FactorialsPX(PX0) == [n \in DOMAIN PX0 |-> IF n \in PXIndices THEN Wr(prod_xsq(n)) ELSE PX0[n]]

\* nsign = pow(-1.0, (n + 1)/2 % 2)  (the corrected form)
nsign_published(n) == IF ((n - 1) \div 4) % 2 = 0 THEN 1 ELSE -1
nsignOf(n) == IF ((n + 1) \div 2) % 2 = 0 THEN 1 ELSE -1

\* b[n] = nsign*b[n - 2]/(n*(n + 2.0))
bStep(prev, n) ==
  IF prev.sgn = 0 THEN [w |-> TRUE, sgn |-> 0, ord |-> 0]
  ELSE [w |-> TRUE, sgn |-> nsignOf(n) * prev.sgn,
        ord |-> IF prev.ord = n - 2 THEN n ELSE -1]

\* c[n] = c[n - 2] + 1.0/n + 1.0/(n + 2)
cStep(prev, n) ==
  [w |-> TRUE, base |-> prev.base,
   ord |-> IF prev.ord = n - 2 \/ (prev.base = "zero" /\ prev.ord = 0) THEN n ELSE -1]

\* pi*x/4.0
PiQuarter(x) == [w |-> TRUE, sgn |-> x.sgn, ord |-> x.ord]

\* lines 77-80: the seeds
CoeffsSeed(t) ==
  LET b1 == [t.b EXCEPT ![1] = [w |-> TRUE, sgn |-> 1, ord |-> 1],
                        ![2] = [w |-> TRUE, sgn |-> 1, ord |-> 2]]
  IN [b |-> b1,
      c |-> [t.c EXCEPT ![2] = [w |-> TRUE, base |-> "seed", ord |-> 2]],
      d |-> [t.d EXCEPT ![2] = PiQuarter(b1[2])]]

\* the body of the loop of Coeffs for one n
CoeffsBody_dFirst(t, n) ==
  LET bn == bStep(t.b[n - 2], n)
  IN [b |-> [t.b EXCEPT ![n] = bn],
      c |-> [t.c EXCEPT ![n] = cStep(t.c[n - 2], n)],
      d |-> [t.d EXCEPT ![n] = PiQuarter(t.b[n])]]
CoeffsBody(t, n) ==
  LET bn == bStep(t.b[n - 2], n)
  IN [b |-> [t.b EXCEPT ![n] = bn],
      c |-> [t.c EXCEPT ![n] = cStep(t.c[n - 2], n)],
      d |-> [t.d EXCEPT ![n] = PiQuarter(bn)]]

\* for(int n = 3; n < Ne; ++n)
RECURSIVE CoeffsLoop(_, _)
CoeffsLoop(t, n) ==
  IF n < Ne THEN CHOOSE r \in {CoeffsLoop(u, n + 1) : u \in {CoeffsBody(t, n)}} : TRUE
  ELSE t

\* void Coeffs()
CoeffsRun(t) == CoeffsLoop(CoeffsSeed(t), 3)

\* the class of a coefficient as a factor
bClass(x) == IF x.sgn = 0 THEN "zero" ELSE "fin"
cClass(x) == IF x.w THEN "fin" ELSE "zero"

\* ------------------------------------------------------------ state
\* pc: where the process is; p, q: the evaluation point; F .. d: the global
\* tables; calls: how often each function was called; out: the results main
\* has printed; CIl: what the call of CI did; Jl, Jel: the locals of J and Je;
\* cerr: the diagnostics written to cerr; reads, lreads: the entries of the
\* global tables, and of the local arrays of J, that were read
VARIABLES pc, p, q, F, SI, PX, b, c, d, calls, out, CIl, Jl, Jel, cerr, reads, lreads

tables == <<F, SI, PX, b, c, d>>
vars == <<pc, p, q, F, SI, PX, b, c, d, calls, out, CIl, Jl, Jel, cerr, reads, lreads>>

NoRes == <<>>

\* int main: the calls in the order of lines 331-338, then the end of main
MainSeq_CoeffsLate == <<"Factorials", "CI", "Coeffs", "J", "Je", "end">>
MainSeq == <<"Factorials", "Coeffs", "CI", "J", "Je", "end">>

After(f) == MainSeq[(CHOOSE k \in 1..Len(MainSeq) : MainSeq[k] = f) + 1]

Called(f) == [calls EXCEPT ![f] = @ + 1]

CI0 == [n |-> 0, wsum |-> 0, mu_sum |-> "zero"]
J0 == [r |-> Mag("zero", 0), th |-> "zero", lnr |-> "zero",
       rp |-> <<>>, rhp |-> <<>>, cthp |-> <<>>, sthp |-> <<>>,
       s2 |-> "zero", s2p |-> "zero", s4 |-> "zero", s4p |-> "zero",
       sg1 |-> "zero", sg3 |-> "zero", sg2 |-> "zero", sg4 |-> "zero",
       ns |-> 0, nf |-> 0, nsign |-> 0, nden |-> 0, nfrac |-> 0]
Je0 == [a |-> Mag("zero", 0), th |-> "zero", lna |-> "zero",
        ap |-> <<>>, cthp |-> <<>>, sthp |-> <<>>, n |-> 0]

ZeroTables ==
  /\ F = [n \in 0..(Nf - 1) |-> ZeroEntry]
  /\ SI = [n \in 0..(Nsi - 1) |-> ZeroEntry]
  /\ PX = [n \in 0..Nsi |-> ZeroEntry]
  /\ b = [n \in 0..(Ne - 1) |-> ZeroCoeff]
  /\ c = [n \in 0..(Ne - 1) |-> ZeroC]
  /\ d = [n \in 0..(Ne - 1) |-> ZeroCoeff]

\* the process after the arguments are read (lines 329-330)
Init ==
  /\ pc = MainSeq[1]
  /\ \E in \in Inputs : p = in[1] /\ q = in[2]
  /\ ZeroTables
  /\ calls = [f \in {"Factorials", "Coeffs", "CI", "J", "Je"} |-> 0]
  /\ out = [Jc |-> NoRes, Jv |-> NoRes, Jve |-> NoRes]
  /\ CIl = CI0 /\ Jl = J0 /\ Jel = Je0
  /\ cerr = {} /\ reads = {} /\ lreads = {}

\* line 331
Factorials ==
  /\ pc = "Factorials"
  /\ F' = FactorialsF(F)
  /\ SI' = FactorialsSI(SI)
  /\ PX' = FactorialsPX(PX)
  /\ calls' = Called("Factorials")
  /\ pc' = After("Factorials")
  /\ UNCHANGED <<p, q, b, c, d, out, CIl, Jl, Jel, cerr, reads, lreads>>

\* line 332
Coeffs ==
  /\ pc = "Coeffs"
  /\ LET t == CoeffsRun([b |-> b, c |-> c, d |-> d])
     IN b' = t.b /\ c' = t.c /\ d' = t.d
  /\ calls' = Called("Coeffs")
  /\ pc' = After("Coeffs")
  /\ UNCHANGED <<p, q, F, SI, PX, out, CIl, Jl, Jel, cerr, reads, lreads>>


\* ------------------------------------------------------------ CI
\* ifac: 1.0 at i == 0 and i == N, (double)(2*(i % 2) + 2) otherwise
ifac_evenHeavy(i) == IF i = 0 \/ i = N THEN 1 ELSE 4 - 2 * (i % 2)
ifac(i) == IF i = 0 \/ i = N THEN 1 ELSE 2 * (i % 2) + 2

\* whether 2^e * i exceeds lim (i <= N; lim < 2^20)
Exceeds(e, i, lim) ==
  IF e >= 20 THEN i >= 1
  ELSE IF e < 0 THEN FALSE
  ELSE i > lim \div (2 ^ e)

\* exp(-p*mu) at mu = i*dmu, dmu = 10/N = 0.001: exp overflows above
\* 709.782 and is 0 below -745.133
expmpmu(pp, i) ==
  IF pp.k = "nan" THEN "nan"
  ELSE IF pp.k = "inf" THEN
         (IF i = 0 THEN "nan" ELSE IF pp.s = 1 THEN "zero" ELSE "pinf")
  ELSE IF pp.k = "zero" \/ i = 0 THEN "fin"
  ELSE IF pp.s = -1 THEN (IF Exceeds(pp.e, i, 709782) THEN "pinf" ELSE "fin")
  ELSE (IF Exceeds(pp.e, i, 745133) THEN "zero" ELSE "fin")

\* cos(q*mu)
cosqmu(qq, i) ==
  IF qq.k = "nan" \/ qq.k = "inf" THEN "nan" ELSE "fin"

\* One pass of the loop of CI (lines 309-314).  sqrt(mu*mu + ci) - mu has a
\* finite positive real and imaginary part, and both are scaled by the same
\* two real factors: the two parts of arg, and of mu_sum, have one class.
\* acc.mu_sum is the set of the classes mu_sum may have.
CIBody(acc, pp, qq, i) ==
  LET arg == MulS(MulS({"fin"}, {expmpmu(pp, i)}), {cosqmu(qq, i)})
  IN [n |-> acc.n + 1,
      wsum |-> acc.wsum + ifac(i),
      mu_sum |-> AddS(acc.mu_sum, {PosC(a) : a \in arg})]

\* for(int i = lo; i <= hi; ++i): the passes in order, the first half of the
\* range and then the second
RECURSIVE CILoop(_, _, _, _, _)
CILoop(acc, pp, qq, lo, hi) ==
  IF lo = hi THEN CIBody(acc, pp, qq, lo)
  ELSE LET mid == (lo + hi) \div 2
       IN CHOOSE r \in {CILoop(a, pp, qq, mid + 1, hi) :
                          a \in {CILoop(acc, pp, qq, lo, mid)}} : TRUE

\* complex<double> CI(double p, double q), and lines 334-335 of main
CI ==
  /\ pc = "CI"
  /\ LET acc == CILoop([n |-> 0, wsum |-> 0, mu_sum |-> {"zero"}], p, q, 0, N)
     IN \E m \in acc.mu_sum :
          /\ CIl' = [n |-> acc.n, wsum |-> acc.wsum, mu_sum |-> PosC(m)]
          /\ out' = [out EXCEPT !.Jc = <<PosC(m), PosC(m)>>]
  /\ calls' = Called("CI")
  /\ pc' = After("CI")
  /\ UNCHANGED <<p, q, tables, Jl, Jel, cerr, reads, lreads>>

\* ------------------------------------------------------------ J
\* a read of a local array: outside its bounds the value is whatever the
\* stack holds there
Rd(tab, np) == IF np \in DOMAIN tab THEN {tab[np]} ELSE FC

\* a read of a global table
GRd(tab, n) == IF n \in DOMAIN tab THEN {tab[n].v} ELSE FC

\* lines 94-112: r, th, rh, lnr, the four local tables, the first loop's start
JEnter ==
  /\ pc = "J"
  /\ LET r == Radius(p, q)
         th == atan2(q, p)
         rh == Half(r)
     IN Jl' = [J0 EXCEPT !.r = r, !.th = th, !.lnr = log(r),
                         !.rp = [n \in 0..(LocalLen - 1) |-> pow(r, n)],
                         !.rhp = [n \in 0..(LocalLen - 1) |-> pow(rh, n)],
                         !.cthp = [n \in 0..(LocalLen - 1) |-> cosn(n, th)],
                         !.sthp = [n \in 0..(LocalLen - 1) |-> sinn(n, th)],
                         !.nf = 1, !.nsign = 1, !.ns = 0]
  /\ calls' = Called("J")
  /\ pc' = "J_s2"
  /\ UNCHANGED <<p, q, tables, out, CIl, Jel, cerr, reads, lreads>>

\* the isnan test that ends each loop body (lines 120, 141, 158, 175, 195, 215)
NanTest_s4Only(loop, J) ==
  IF loop = "J_s2" THEN isnan(J.s2) \/ isnan(J.s2p)
  ELSE IF loop = "J_s4" THEN isnan(J.s4)
  ELSE IF loop = "J_sg1" THEN isnan(J.sg1)
  ELSE IF loop = "J_sg3" THEN isnan(J.sg3)
  ELSE IF loop = "J_sg2" THEN isnan(J.sg2)
  ELSE isnan(J.sg4)
NanTest(loop, J) ==
  IF loop = "J_s2" THEN isnan(J.s2) \/ isnan(J.s2p)
  ELSE IF loop = "J_s4" THEN isnan(J.s4) \/ isnan(J.s4p)
  ELSE IF loop = "J_sg1" THEN isnan(J.sg1)
  ELSE IF loop = "J_sg3" THEN isnan(J.sg3)
  ELSE IF loop = "J_sg2" THEN isnan(J.sg2)
  ELSE isnan(J.sg4)

\* The end of a loop body: Jn holds the locals after the accumulation, gr and
\* lr the entries read, tag and diag the label of the diagnostic and the
\* entries it reads, Jnext the locals as the next loop starts.  On NaN the
\* diagnostic and exit(0), else ++ns.
JLoopEnd(Jn, gr, lr, tag, diag, nxt, Jnext) ==
  /\ lreads' = lreads \cup lr
  /\ IF NanTest(pc, Jn)
       THEN /\ pc' = "exit"
            /\ Jl' = Jn
            /\ cerr' = cerr \cup {<<tag, Jn.ns>>}
            /\ reads' = reads \cup gr \cup diag
       ELSE /\ reads' = reads \cup gr
            /\ cerr' = cerr
            /\ IF Jn.ns + 1 < Ns
                 THEN pc' = pc /\ Jl' = [Jn EXCEPT !.ns = @ + 1]
                 ELSE pc' = nxt /\ Jl' = Jnext
  /\ UNCHANGED <<p, q, tables, calls, out, CIl, Jel>>

\* 1.0/(F[nf]*F[nf + 1])
InvFF(nf) == InvS(MulS(GRd(F, nf), GRd(F, nf + 1)))

\* lines 113-128
J_s2 ==
  /\ pc = "J_s2"
  /\ LET np == 2 + 4 * Jl.ns
     IN \E rv \in Rd(Jl.rhp, np), cv \in Rd(Jl.cthp, np), sv \in Rd(Jl.sthp, np) :
        \E k \in SignS(Jl.nsign, InvFF(Jl.nf)) :
        \E x \in MulS(MulS({k}, {rv}), {cv}), y \in MulS(MulS({k}, {rv}), {sv}) :
          LET Jn == [Jl EXCEPT !.s2 = AddC(@, x), !.s2p = AddC(@, y),
                               !.nf = @ + 2, !.nsign = 0 - @]
          IN JLoopEnd(Jn,
               {<<"F", Jl.nf>>, <<"F", Jl.nf + 1>>},
               {<<"rhp", np>>, <<"cthp", np>>, <<"sthp", np>>},
               "2 2p", {<<"F", Jn.nf>>, <<"F", Jn.nf + 1>>},
               "J_s4", [Jn EXCEPT !.ns = 0, !.nf = 2, !.nsign = 1])

\* lines 130-146
J_s4 ==
  /\ pc = "J_s4"
  /\ LET np == 4 + 4 * Jl.ns
     IN \E rv \in Rd(Jl.rhp, np), cv \in Rd(Jl.cthp, np), sv \in Rd(Jl.sthp, np) :
        \E k \in SignS(Jl.nsign, InvFF(Jl.nf)) :
        \E x \in MulS(MulS({k}, {rv}), {cv}), y \in MulS(MulS({k}, {rv}), {sv}) :
          LET Jn == [Jl EXCEPT !.s4 = AddC(@, x), !.s4p = AddC(@, y),
                               !.nf = @ + 2, !.nsign = 0 - @]
          IN JLoopEnd(Jn,
               {<<"F", Jl.nf>>, <<"F", Jl.nf + 1>>},
               {<<"rhp", np>>, <<"cthp", np>>, <<"sthp", np>>},
               "4 4p", {},
               "J_sg1", [Jn EXCEPT !.ns = 0, !.nsign = 1, !.nden = 3])

\* lines 148-163
J_sg1 ==
  /\ pc = "J_sg1"
  /\ LET np == 1 + 4 * Jl.ns
     IN \E rv \in Rd(Jl.rp, np), cv \in Rd(Jl.cthp, np), den \in GRd(PX, Jl.nden) :
        \E x \in MulS(MulS(SignS(Jl.nsign, {rv}), {cv}), {InvC(den)}) :
          LET Jn == [Jl EXCEPT !.sg1 = AddC(@, x), !.nsign = 0 - @, !.nden = @ + 4]
          IN JLoopEnd(Jn,
               {<<"PX", Jl.nden>>},
               {<<"rp", np>>, <<"cthp", np>>},
               "g1", {},
               "J_sg3", [Jn EXCEPT !.ns = 0, !.nsign = 1, !.nden = 5])

\* lines 165-180
J_sg3 ==
  /\ pc = "J_sg3"
  /\ LET np == 3 + 4 * Jl.ns
     IN \E rv \in Rd(Jl.rp, np), cv \in Rd(Jl.cthp, np), den \in GRd(PX, Jl.nden) :
        \E x \in MulS(MulS(SignS(Jl.nsign, {rv}), {cv}), {InvC(den)}) :
          LET Jn == [Jl EXCEPT !.sg3 = AddC(@, x), !.nsign = 0 - @, !.nden = @ + 4]
          IN JLoopEnd(Jn,
               {<<"PX", Jl.nden>>},
               {<<"rp", np>>, <<"cthp", np>>},
               "g3", {},
               "J_sg2", [Jn EXCEPT !.ns = 0, !.nsign = 1, !.nfrac = 2, !.nf = 1])

\* lines 182-200
J_sg2 ==
  /\ pc = "J_sg2"
  /\ LET np == 2 + 4 * Jl.ns
     IN \E rv \in Rd(Jl.rhp, np), cv \in Rd(Jl.cthp, np), num \in GRd(SI, Jl.nfrac) :
        \E k \in MulS(SignS(Jl.nsign, {num}), InvFF(Jl.nf)) :
        \E x \in MulS(MulS({k}, {rv}), {cv}) :
          LET Jn == [Jl EXCEPT !.sg2 = AddC(@, x), !.nsign = 0 - @,
                               !.nfrac = @ + 2, !.nf = @ + 2]
          IN JLoopEnd(Jn,
               {<<"SI", Jl.nfrac>>, <<"F", Jl.nf>>, <<"F", Jl.nf + 1>>},
               {<<"rhp", np>>, <<"cthp", np>>},
               "g2", {},
               "J_sg4", [Jn EXCEPT !.ns = 0, !.nsign = 1, !.nfrac = 3, !.nf = 2])

\* lines 202-220
J_sg4 ==
  /\ pc = "J_sg4"
  /\ LET np == 4 + 4 * Jl.ns
     IN \E rv \in Rd(Jl.rhp, np), cv \in Rd(Jl.cthp, np), num \in GRd(SI, Jl.nfrac) :
        \E k \in MulS(SignS(Jl.nsign, {num}), InvFF(Jl.nf)) :
        \E x \in MulS(MulS({k}, {rv}), {cv}) :
          LET Jn == [Jl EXCEPT !.sg4 = AddC(@, x), !.nsign = 0 - @,
                               !.nfrac = @ + 2, !.nf = @ + 2]
          IN JLoopEnd(Jn,
               {<<"SI", Jl.nfrac>>, <<"F", Jl.nf>>, <<"F", Jl.nf + 1>>},
               {<<"rhp", np>>, <<"cthp", np>>},
               "g4", {},
               "J_ret", [Jn EXCEPT !.ns = Ns])

\* a - b
SubS(A, B) == AddS(A, NegS(B))
\* c*a, a/c for a finite constant c > 0, on sets
PosS(A) == {PosC(a) : a \in A}

\* log(2.0/gamma_e) - lnr
LogTerm(lnr) == SubS({"fin"}, {lnr})

\* line 221-222
J_P(J) ==
  LET t1 == PosS(SubS({"fin"}, {J.s4}))
      t2 == MulS(PosS(LogTerm(J.lnr)), {J.s2})
      t3 == MulS(PosS({J.th}), {J.s2p})
  IN AddS(AddS(SubS(AddS(AddS(t1, t2), t3), PosS({J.sg1})),
               PosS({J.sg2})), PosS({J.sg3}))

\* line 223-224
J_Q(J) ==
  LET t2 == MulS(PosS(LogTerm(J.lnr)), SubS({"fin"}, {J.s4}))
      t3 == MulS(PosS({J.th}), {J.s4p})
  IN SubS(AddS(SubS(AddS(SubS(AddS({"fin"}, t2), t3), PosS({J.sg1})),
                    PosS({J.s2})), PosS({J.sg3})), PosS({J.sg4}))

\* lines 221-225 of J and 336-337 of main; the locals of J end with the call
JReturn ==
  /\ pc = "J_ret"
  /\ \E P \in J_P(Jl), Q \in J_Q(Jl) : out' = [out EXCEPT !.Jv = <<P, Q>>]
  /\ Jl' = J0
  /\ pc' = After("J")
  /\ UNCHANGED <<p, q, tables, calls, CIl, Jel, cerr, reads, lreads>>


\* ------------------------------------------------------------ Je
\* lines 230-236: a, th, ah, lna
JeEnter ==
  /\ pc = "Je"
  /\ LET a == Radius(p, q)
     IN Jel' = [Je0 EXCEPT !.a = a, !.th = atan2(q, p), !.lna = log(a), !.n = 0]
  /\ calls' = Called("Je")
  /\ pc' = "Je_fill"
  /\ UNCHANGED <<p, q, tables, out, CIl, Jl, cerr, reads, lreads>>

\* where Je goes after filling entry n (lines 237, 246)
JeAfterFill_abort(n, bad) ==
  IF bad THEN "exit" ELSE IF n + 1 < LocalLen THEN "Je_fill" ELSE "Je_ret"
JeAfterFill(n, bad) == IF n + 1 < LocalLen THEN "Je_fill" ELSE "Je_ret"

\* lines 237-246: one pass of the fill loop; a not-a-number entry is reported
\* on cerr and the loop goes on
JeFill ==
  /\ pc = "Je_fill"
  /\ LET n == Jel.n
         apn == pow(Jel.a, n)
         cn == cosn(n, Jel.th)
         sn == sinn(n, Jel.th)
         bad == isnan(apn) \/ isnan(cn) \/ isnan(sn)
     IN /\ Jel' = [Jel EXCEPT !.ap = [k \in 0..n |-> IF k = n THEN apn ELSE @[k]],
                              !.cthp = [k \in 0..n |-> IF k = n THEN cn ELSE @[k]],
                              !.sthp = [k \in 0..n |-> IF k = n THEN sn ELSE @[k]],
                              !.n = n + 1]
        /\ cerr' = IF bad THEN cerr \cup {<<"Je", n>>} ELSE cerr
        /\ pc' = JeAfterFill(n, bad)
  /\ UNCHANGED <<p, q, tables, calls, out, CIl, Jl, reads, lreads>>

\* The terms of P (lines 248-272) and of Q (lines 274-296) in order: the sign,
\* the shape and the index.  "b": b[n]*ap[n]*cthp[n]; "d": d[n]*ap[n]*cthp[n];
\* "bc": b[n]*((c[n] - lna)*ap[n]*cthp[n] + th*ap[n]*sthp[n]).
Term(sg, kind, n) == [sg |-> sg, kind |-> kind, n |-> n]
PTerms ==
  << Term(-1, "b", 1), Term(1, "bc", 2), Term(1, "b", 3), Term(-1, "d", 4),
     Term(-1, "b", 5), Term(1, "bc", 6), Term(1, "b", 7), Term(-1, "d", 8),
     Term(-1, "b", 9), Term(1, "bc", 10), Term(1, "b", 11), Term(-1, "d", 12),
     Term(-1, "b", 13), Term(1, "bc", 14), Term(1, "b", 15), Term(-1, "d", 16),
     Term(-1, "b", 17), Term(1, "bc", 18), Term(1, "b", 19), Term(-1, "d", 20),
     Term(-1, "b", 21), Term(1, "bc", 22), Term(1, "b", 23), Term(-1, "d", 24),
     Term(-1, "b", 25) >>
QTerms ==
  << Term(1, "b", 1), Term(-1, "d", 2), Term(1, "b", 3), Term(-1, "bc", 4),
     Term(1, "b", 5), Term(-1, "d", 6), Term(1, "b", 7), Term(-1, "bc", 8),
     Term(1, "b", 9), Term(-1, "d", 10), Term(1, "b", 11), Term(-1, "bc", 12),
     Term(1, "b", 13), Term(-1, "d", 14), Term(1, "b", 15), Term(-1, "bc", 16),
     Term(1, "b", 17), Term(-1, "d", 18), Term(1, "b", 19), Term(-1, "bc", 20),
     Term(1, "b", 21), Term(-1, "d", 22), Term(1, "b", 23) >>

\* the global entries a term reads
TermReads(t) ==
  IF t.kind = "b" THEN {<<"b", t.n>>}
  ELSE IF t.kind = "d" THEN {<<"d", t.n>>}
  ELSE {<<"b", t.n>>, <<"c", t.n>>}

CoefRd(tab, n) == IF n \in DOMAIN tab THEN {bClass(tab[n])} ELSE FC
CRd(tab, n) == IF n \in DOMAIN tab THEN {cClass(tab[n])} ELSE FC

\* the classes a term may have
TermVal(t, E) ==
  LET an == Rd(E.ap, t.n)
      cn == Rd(E.cthp, t.n)
      sn == Rd(E.sthp, t.n)
      v == IF t.kind = "b" THEN MulS(MulS(CoefRd(b, t.n), an), cn)
           ELSE IF t.kind = "d" THEN MulS(MulS(CoefRd(d, t.n), an), cn)
           ELSE MulS(CoefRd(b, t.n),
                     AddS(MulS(MulS(SubS(CRd(c, t.n), {E.lna}), an), cn),
                          MulS(MulS({E.th}, an), sn)))
  IN SignS(t.sg, v)

\* the sum from left to right
RECURSIVE SumTerms(_, _, _, _)
SumTerms(acc, ts, k, E) ==
  IF k > Len(ts) THEN acc ELSE SumTerms(AddS(acc, TermVal(ts[k], E)), ts, k + 1, E)

\* P starts from pi/8.0, Q from (1.0/2.0)*(0.6159315 - lna)
Je_P(E) == SumTerms({"fin"}, PTerms, 1, E)
Je_Q(E) == SumTerms(PosS(SubS({"fin"}, {E.lna})), QTerms, 1, E)

\* lines 247-297 of Je and 338-339 of main; the locals of Je end with the call
JeReturn ==
  /\ pc = "Je_ret"
  /\ \E P \in Je_P(Jel), Q \in Je_Q(Jel) : out' = [out EXCEPT !.Jve = <<P, Q>>]
  /\ reads' = reads \cup UNION {TermReads(PTerms[k]) : k \in 1..Len(PTerms)}
                    \cup UNION {TermReads(QTerms[k]) : k \in 1..Len(QTerms)}
  /\ Jel' = Je0
  /\ pc' = After("Je")
  /\ UNCHANGED <<p, q, tables, calls, CIl, Jl, cerr, lreads>>

\* lines 340-341: the last line of output, return 0
MainEnd ==
  /\ pc = "end"
  /\ pc' = "done"
  /\ UNCHANGED <<p, q, tables, calls, out, CIl, Jl, Jel, cerr, reads, lreads>>

Next ==
  \/ Factorials \/ Coeffs \/ CI
  \/ JEnter \/ J_s2 \/ J_s4 \/ J_sg1 \/ J_sg3 \/ J_sg2 \/ J_sg4 \/ JReturn
  \/ JeEnter \/ JeFill \/ JeReturn
  \/ MainEnd

Spec == Init /\ [][Next]_vars

\* ------------------------------------------------------------ Je alone
\* Je called on the tables the two builders leave, for every input: in main
\* a NaN input ends the process in J before Je is reached.
InitJe ==
  /\ pc = "Je"
  /\ \E in \in Inputs : p = in[1] /\ q = in[2]
  /\ \E F0 \in {[n \in 0..(Nf - 1) |-> ZeroEntry]} : F = FactorialsF(F0)
  /\ \E S0 \in {[n \in 0..(Nsi - 1) |-> ZeroEntry]} : SI = FactorialsSI(S0)
  /\ \E P0 \in {[n \in 0..Nsi |-> ZeroEntry]} : PX = FactorialsPX(P0)
  /\ \E t \in {CoeffsRun([b |-> [n \in 0..(Ne - 1) |-> ZeroCoeff],
                          c |-> [n \in 0..(Ne - 1) |-> ZeroC],
                          d |-> [n \in 0..(Ne - 1) |-> ZeroCoeff]])} :
        b = t.b /\ c = t.c /\ d = t.d
  /\ calls = [f \in {"Factorials", "Coeffs", "CI", "J", "Je"} |->
                IF f \in {"Factorials", "Coeffs"} THEN 1 ELSE 0]
  /\ out = [Jc |-> NoRes, Jv |-> NoRes, Jve |-> NoRes]
  /\ CIl = CI0 /\ Jl = J0 /\ Jel = Je0
  /\ cerr = {} /\ reads = {} /\ lreads = {}

NextJe == JeEnter \/ JeFill \/ JeReturn

SpecJe == InitJe /\ [][NextJe]_vars

\* ------------------------------------------------------------ properties
JPcs == {"J_s2", "J_s4", "J_sg1", "J_sg3", "J_sg2", "J_sg4", "J_ret"}
Sums(J) == {J.s2, J.s2p, J.s4, J.s4p, J.sg1, J.sg3, J.sg2, J.sg4}

\* C2: in J every partial sum is tested for NaN after each accumulation step:
\* while J runs or returns no partial sum is NaN, and once one is NaN the
\* process has ended in that step with the loop's diagnostic written, J has
\* returned nothing and main has printed neither series result.
C2_NanEndsRun ==
  /\ pc \in JPcs => "nan" \notin Sums(Jl)
  /\ "nan" \in Sums(Jl) =>
       /\ pc = "exit"
       /\ \E tag \in {"2 2p", "4 4p", "g1", "g3", "g2", "g4"} : <<tag, Jl.ns>> \in cerr
       /\ out.Jv = NoRes /\ out.Jve = NoRes
  /\ pc = "exit" => "nan" \in Sums(Jl) /\ calls["Je"] = 0

\* a NaN found in a later step of a loop, after steps that went through
C2_Witness == pc = "exit" /\ "nan" \in Sums(Jl) /\ Jl.ns > 0 /\ out.Jv = NoRes

\* C3: with p = q = 0 no result of J or Je is printed as an ordinary result.
C3_DegenerateNotReported ==
  (p.k = "zero" /\ q.k = "zero") => (out.Jv = NoRes /\ out.Jve = NoRes)

\* C4 as stated: after Coeffs() every b[n], c[n], d[n], n in 1..48, was
\* assigned by the builder, with d[n] = pi*b[n]/4.
C4_AllAssigned ==
  calls["Coeffs"] = 1 =>
    \A n \in 1..48 : /\ b[n].w /\ c[n].w /\ d[n].w
                     /\ d[n].sgn = b[n].sgn /\ d[n].ord = b[n].ord

\* C4 amended: after Coeffs() b[n] was assigned for n in 1..48, c[n] and d[n]
\* for n in 2..48 with d[n] = pi*b[n]/4; c[1] and d[1] were not assigned and
\* are still 0.
C4_AssignedFrom2 ==
  calls["Coeffs"] = 1 =>
    /\ \A n \in 1..48 : b[n].w /\ b[n].ord = n
    /\ \A n \in 2..48 : /\ c[n].w /\ d[n].w
                        /\ d[n].sgn = b[n].sgn /\ d[n].ord = b[n].ord
    /\ c[1] = ZeroC /\ d[1] = ZeroCoeff

C4_Witness == calls["Coeffs"] = 1 /\ b[48].w /\ d[48].w /\ ~d[1].w

\* C5: Je goes through NaN: each of the 32 entries is filled, an entry that is
\* NaN is reported on cerr for its n and nothing else is, the process is never
\* ended, and Je returns a pair.
JeNaNs == {n \in DOMAIN Jel.ap :
             isnan(Jel.ap[n]) \/ isnan(Jel.cthp[n]) \/ isnan(Jel.sthp[n])}
C5_JeTolerant ==
  /\ pc # "exit"
  /\ pc \in {"Je_fill", "Je_ret"} =>
       /\ DOMAIN Jel.ap = 0..(Jel.n - 1)
       /\ DOMAIN Jel.cthp = 0..(Jel.n - 1)
       /\ DOMAIN Jel.sthp = 0..(Jel.n - 1)
       /\ cerr = {<<"Je", n>> : n \in JeNaNs}
  /\ pc = "Je_ret" => Jel.n = 32 /\ Je_P(Jel) # {} /\ Je_Q(Jel) # {}
  /\ pc = "end" => calls["Je"] = 1 /\ Len(out.Jve) = 2

\* Je has returned a pair although entries were NaN
C5_Witness == pc = "end" /\ <<"Je", 31>> \in cerr /\ Len(out.Jve) = 2

\* C6: Factorials() and Coeffs() each run once, both before the first of CI,
\* J, Je starts, and from then on no entry of the six tables changes.
EvalStarted == calls["CI"] + calls["J"] + calls["Je"] > 0
C6_TablesFrozen ==
  /\ [](/\ calls["Factorials"] <= 1 /\ calls["Coeffs"] <= 1
        /\ EvalStarted => (calls["Factorials"] = 1 /\ calls["Coeffs"] = 1)
        /\ pc = "done" => \A f \in DOMAIN calls : calls[f] = 1)
  /\ [][(EvalStarted \/ EvalStarted') => (tables' = tables)]_vars

C6_Witness ==
  pc = "done" /\ calls["Factorials"] = 1 /\ calls["Coeffs"] = 1 /\ calls["Je"] = 1

\* C7: CI takes the N+1 samples i = 0..N with the weights 1, 4, 2, 4, ..., 4, 1;
\* the weights add up to 3N, so that a constant integrand 1 gives
\* (dmu/3)*3N = mu_max = 10.
C7_SimpsonWeights ==
  pc = "J" =>
    /\ CIl.n = N + 1
    /\ \A i \in 0..N :
         ifac(i) = IF i = 0 \/ i = N THEN 1 ELSE IF i % 2 = 1 THEN 4 ELSE 2
    /\ ifac(N - 1) = 4
    /\ CIl.wsum = 3 * N
    /\ CIl.wsum * mu_max = 10 * (3 * N)

C7_Witness == pc = "J" /\ calls["CI"] = 1 /\ CIl.n = N + 1 /\ Len(out.Jc) = 2

\* C8: every index with which J reads rp, rhp, cthp, sthp lies in 0..31.
C8_LocalReadsInBounds == \A rd \in lreads : rd[2] \in 0..31

\* C9 as stated: every global entry read was assigned by a builder, lies in
\* the bounds of its table, and is one of F[1..17], SI[2..17], PX[3], PX[5],
\* .., PX[33], b[1..25], c[2], c[4], .., c[22], d[2], d[4], .., d[24].
TableOf(name) ==
  CASE name = "F" -> F [] name = "SI" -> SI [] name = "PX" -> PX
    [] name = "b" -> b [] name = "c" -> c [] name = "d" -> d
ReadsAssigned ==
  \A rd \in reads : rd[2] \in DOMAIN TableOf(rd[1]) /\ TableOf(rd[1])[rd[2]].w
ReadsWithin(maxF) ==
  \A rd \in reads :
    \/ rd[1] = "F" /\ rd[2] \in 1..maxF
    \/ rd[1] = "SI" /\ rd[2] \in 2..17
    \/ rd[1] = "PX" /\ rd[2] \in 3..33 /\ rd[2] % 2 = 1
    \/ rd[1] = "b" /\ rd[2] \in 1..25
    \/ rd[1] = "c" /\ rd[2] \in 2..22 /\ rd[2] % 2 = 0
    \/ rd[1] = "d" /\ rd[2] \in 2..24 /\ rd[2] % 2 = 0
C9_ReadsAsStated == ReadsAssigned /\ ReadsWithin(17)

\* C9 amended: as stated, with F[1..18] in place of F[1..17]: the diagnostic
\* of the first loop of J reads F[nf] and F[nf + 1] after nf += 2, which is
\* F[17] and F[18] when the NaN is found at ns = 7.
C9_ReadsAmended == ReadsAssigned /\ ReadsWithin(18)

C9_Witness ==
  pc = "end" /\ <<"F", 17>> \in reads /\ <<"SI", 17>> \in reads
  /\ <<"PX", 33>> \in reads /\ <<"b", 25>> \in reads /\ <<"c", 22>> \in reads
  /\ <<"d", 24>> \in reads

\* C10: after Coeffs() every b[n], n in 1..49, is nonzero, positive exactly
\* when (n-1) div 4 is even and negative exactly when it is odd, and d[n] has
\* the sign of b[n] for n in 2..49.
C10_SignBlocks ==
  calls["Coeffs"] = 1 =>
    /\ \A n \in 1..49 :
         /\ b[n].sgn # 0
         /\ b[n].sgn = 1 <=> ((n - 1) \div 4) % 2 = 0
         /\ b[n].sgn = -1 <=> ((n - 1) \div 4) % 2 = 1
    /\ \A n \in 2..49 : d[n].sgn = b[n].sgn

C10_Witness == calls["Coeffs"] = 1 /\ b[49].sgn = 1 /\ b[8].sgn = -1 /\ d[8].sgn = -1

====
